---- MODULE Spec2Model ----
(***************************************************************************)
(* logMeBE: the change-notification fan-out and the sheet synchronisation  *)
(* of src/app.py, as a state machine.                                      *)
(*                                                                         *)
(*   store        users, log, next_id           (PostgreSQL tables)        *)
(*   sheet        the A2:D region of the Google worksheet                  *)
(*   listener     listen_to_log_notifications   (one asyncio task)         *)
(*   dispatcher   notification_dispatcher       (one asyncio task)         *)
(*   registry     connected_websockets, logs_websocket handlers            *)
(*   runs         refresh_sheet_from_db tasks, one per dequeued event      *)
(***************************************************************************)
EXTENDS Integers, Sequences, FiniteSets, TLC

\* ------------------------------------------------------------------ bounds
\* change notifications the change source emits while the listener listens
MaxEvents == 2
\* rows ever inserted into table log while the app runs
MaxLogRows == 2
\* rows of table log when a sync run queries it
MaxViewRows == 3

\* ------------------------------------------------------------- value sets
\* the websocket connections that are ever opened
Sockets == {"ws1", "ws2", "ws3"}

\* the users of the multiple_users fixture
Alice == [barcode |-> "1111111111111", nome |-> "Alice", cognome |-> "Bianchi"]
Bob == [barcode |-> "2222222222222", nome |-> "Bob", cognome |-> "Verdi"]
Barcodes == {Alice.barcode, Bob.barcode}

Directions == {"CHECKIN", "CHECKOUT"}

\* event_time values: [secs, aware].  secs are the seconds since
\* 1970-01-01 00:00:00 read off the datetime's own clock (UTC for an aware
\* value); aware is FALSE for a datetime without tzinfo.
\* 2024-01-15 10:00:00+00, 2024-01-15 10:00:30+00, 2024-07-15 22:30:00+00
T1 == [secs |-> 1705312800, aware |-> TRUE]
T2 == [secs |-> 1705312830, aware |-> TRUE]
T3 == [secs |-> 1721082600, aware |-> TRUE]
EventTimes == {T1, T2, T3}
\* the event_time values of the rows written while sync runs are under way
SyncTimes == {T1, T3}

\* the payload strings of the change source's notifications
Payloads == {"INSERT", "DELETE"}

None == 0
\* the dispatcher's local message before its first assignment
NoMessage == [type |-> "unbound"]

\* an event_time that is None (a NULL of the column)
NullTime == [null |-> TRUE]

\* how many HTTP requests a behaviour holds
MaxCalls == 2

\* how many requests to /auth a behaviour holds
MaxAuthCalls == 3

\* if count >= 10
MaxManagers == 10

\* while found and count < 10
MaxLookups == 10

\* ---------------------------------------------------------- eangenerator.py
RECURSIVE Sum(_), Join(_)
Sum(ds) == IF ds = <<>> THEN 0 ELSE Head(ds) + Sum(Tail(ds))

\* ''.join(str(d) for d in digits)
Join(ds) == IF ds = <<>> THEN "" ELSE ToString(Head(ds)) \o Join(Tail(ds))

\* the 12 digits random.randint draws: here all 0 or all 1
EanPrefixes == {[i \in 1..12 |-> d] : d \in {0, 1}}

\* the check digit over the 12 digits, appended
Ean13(digits) ==
    LET somma_odd == Sum([k \in 1..6 |-> digits[2 * k - 1]])
        somma_even == Sum([k \in 1..6 |-> digits[2 * k]])
        totale == somma_odd + somma_even * 3
        checksum == (10 - (totale % 10)) % 10
    IN  Join(Append(digits, checksum))

\* every value a call of genera_ean13() may return
genera_ean13 == {Ean13(digits) : digits \in EanPrefixes}

\* a JSON field of a request body: <<>> when absent or null, <<v>> otherwise
Nothing == <<>>
Some(v) == <<v>>

\* Python's truth of data.get(field) for a string field
Truthy(field) == field # Nothing /\ field # Some("")

\* str.isdigit()
isdigit(s) ==
    /\ Len(s) > 0
    /\ \A i \in 1..Len(s) : SubSeq(s, i, i) \in {"0", "1", "2", "3", "4", "5", "6", "7", "8", "9"}

\* a barcode no user has, and a string that is no barcode
NewBarcode == "9999999999999"
ShortBarcode == "12345"

\* event_time as a JSON body carries it: a string
JsonTime == [str |-> "2024-01-15T10:00:00+00:00"]

\* asyncpg encodes a timestamptz argument from a datetime and from nothing else
IsDatetime(v) == "secs" \in DOMAIN v

\* DEFAULT CURRENT_TIMESTAMP
Now == T3

\* --------------------------------------------------- format_event_time_ita
\* days since 1970-01-01 of a civil date (proleptic Gregorian calendar)
DaysFromCivil(y, m, d) ==
    LET yy == IF m <= 2 THEN y - 1 ELSE y
        era == yy \div 400
        yoe == yy - era * 400
        mp == IF m > 2 THEN m - 3 ELSE m + 9
        doy == (153 * mp + 2) \div 5 + d - 1
        doe == yoe * 365 + yoe \div 4 - yoe \div 100 + doy
    IN  era * 146097 + doe - 719468

\* the civil date [y, m, d] of a day number
CivilFromDays(z0) ==
    LET z == z0 + 719468
        era == z \div 146097
        doe == z - era * 146097
        yoe == (doe - doe \div 1460 + doe \div 36524 - doe \div 146096) \div 365
        doy == doe - (365 * yoe + yoe \div 4 - yoe \div 100)
        mp == (5 * doy + 2) \div 153
        d == doy - (153 * mp + 2) \div 5 + 1
        m == IF mp < 10 THEN mp + 3 ELSE mp - 9
        y == yoe + era * 400 + (IF m <= 2 THEN 1 ELSE 0)
    IN  [y |-> y, m |-> m, d |-> d]

\* the day number of the last Sunday of month m (of 31 days) of year y
LastSunday(y, m) ==
    LET last == DaysFromCivil(y, m, 31)
    IN  last - ((last + 4) % 7)

\* ZoneInfo("Europe/Rome"): UTC+2 from the last Sunday of March 01:00 UTC
\* to the last Sunday of October 01:00 UTC, UTC+1 otherwise
RomeOffset(utc) ==
    LET y == CivilFromDays(utc \div 86400).y
        start == LastSunday(y, 3) * 86400 + 3600
        end == LastSunday(y, 10) * 86400 + 3600
    IN  IF utc >= start /\ utc < end THEN 7200 ELSE 3600

Pad2(n) == IF n < 10 THEN "0" \o ToString(n) ELSE ToString(n)

\* strftime("%H:%M %d/%m/%Y") of a wall-clock reading in seconds
Strftime(wall) ==
    LET date == CivilFromDays(wall \div 86400)
        sod == wall % 86400
    IN  Pad2(sod \div 3600) \o ":" \o Pad2((sod % 3600) \div 60) \o " "
        \o Pad2(date.d) \o "/" \o Pad2(date.m) \o "/" \o ToString(date.y)

\* a conversion that leaves out replace(tzinfo=UTC): a datetime without
\* tzinfo is read as the display zone's own clock
format_event_time_local(event_time) ==
    IF event_time = NullTime THEN ""
    ELSE
        LET utc == event_time.secs
        IN  IF event_time.aware THEN Strftime(utc + RomeOffset(utc)) ELSE Strftime(utc)

format_event_time_ita(event_time) ==
    IF event_time = NullTime THEN ""
    ELSE
        \* a naive value is taken as UTC: replace(tzinfo=UTC) keeps the reading
        LET utc == event_time.secs
        IN  Strftime(utc + RomeOffset(utc))

\* -------------------------------------------------------- LAST_INBOUND_SQL
\* DISTINCT ON (barcode) ... ORDER BY barcode, event_time DESC: the rows a
\* barcode's representative may be, those of its greatest event_time
LatestRows(rows, b) ==
    {r \in rows : /\ r.barcode = b
                  /\ \A q \in rows : q.barcode = b => q.event_time.secs <= r.event_time.secs}

\* the inner SELECT: one row for each barcode of the log, any one of its latest
DistinctOnBarcode(rows) ==
    LET bs == {r.barcode : r \in rows}
    IN  {{pick[b] : b \in bs} : pick \in {f \in [bs -> rows] : \A b \in bs : f[b] \in LatestRows(rows, b)}}

\* the join without its WHERE clause
JoinAnyDirection(us, latest) ==
    {[barcode |-> u.barcode, nome |-> u.nome, cognome |-> u.cognome, event_time |-> l.event_time] :
        <<u, l>> \in {p \in us \X latest : p[1].barcode = p[2].barcode}}

\* JOIN users u ON u.barcode = l.barcode WHERE l.direction = 'CHECKIN'
JoinCheckin(us, latest) ==
    {[barcode |-> u.barcode, nome |-> u.nome, cognome |-> u.cognome, event_time |-> l.event_time] :
        <<u, l>> \in {p \in us \X latest : p[1].barcode = p[2].barcode /\ p[2].direction = "CHECKIN"}}

\* ORDER BY l.event_time DESC: every order of the records that never puts an
\* earlier event_time first
OrderByTimeDesc(recs) ==
    {s \in [1..Cardinality(recs) -> recs] :
        /\ \A i, j \in DOMAIN s : i # j => s[i] # s[j]
        /\ \A i, j \in DOMAIN s : i < j => s[i].event_time.secs >= s[j].event_time.secs}

\* the results conn.fetch(LAST_INBOUND_SQL) may return on a store
LastInbound(us, rows) ==
    UNION {OrderByTimeDesc(JoinCheckin(us, latest)) : latest \in DistinctOnBarcode(rows)}

\* fetch_last_inbound_rows: [barcode, nome, cognome, event_time_str] per record
SheetRows(recs) ==
    [i \in DOMAIN recs |->
        <<recs[i].barcode, recs[i].nome, recs[i].cognome, format_event_time_ita(recs[i].event_time)>>]

fetch_last_inbound_rows(us, rows) == {SheetRows(recs) : recs \in LastInbound(us, rows)}


\* ------------------------------------------------------------------ state
VARIABLES
    users,                 \* table users: records [barcode, nome, cognome]
    log,                   \* table log: records [id, barcode, event_time, direction]
    next_id,               \* the SERIAL sequence of log.id
    sheet,                 \* the rows of the worksheet's range A2:D
    gs,                    \* _credentials, _client, _worksheet and how often each was built
    phase,                 \* the serving lifecycle of the app
    pool,                  \* the global pool: None or a pool's number
    pools,                 \* every pool created so far: number -> "open" | "closed"
    listener_pc,           \* where listener_task stands
    conn,                  \* the listener's dedicated connection
    listening,             \* whether _listener is registered on a live conn
    notifs,                \* notifications in flight on conn: payloads
    notification_queue,    \* asyncio.Queue of events [channel, payload]
    received,              \* history: every event _listener has enqueued, in order
    overlapped,            \* history: the events received while an earlier event's run was unfinished
    dispatcher_pc,         \* where dispatcher_task stands
    message,               \* the dispatcher's local message
    targets,               \* list(connected_websockets) of the broadcast under way
    idx,                   \* the position in targets of the next send
    dead,                  \* the dispatcher's local dead list
    broadcasts,            \* history: one record per broadcast, in order
    cancelled,             \* the tasks whose cancel() is requested and not yet delivered
    connected_websockets,  \* the registry
    ws_pc,                 \* where each logs_websocket handler stands
    runs,                  \* the refresh_sheet_from_db tasks, in spawn order
    managers,              \* table managers: records [id, username, password_hash, active]
    calls                  \* the HTTP requests so far, in arrival order, each with its answer

store == <<users, log, next_id>>
gsheet == <<sheet, gs>>
lifecycle == <<phase, pool, pools>>
listener == <<listener_pc, conn, listening, notifs>>
queue == <<notification_queue, received, overlapped>>
dispatcher == <<dispatcher_pc, message, targets, idx, dead, broadcasts>>
registry == <<connected_websockets, ws_pc>>
web == <<managers, calls>>
vars == <<store, gsheet, lifecycle, listener, queue, dispatcher, cancelled, registry, runs, web>>

Range(s) == {s[i] : i \in DOMAIN s}

\* every order list(a_set) may come out in
Lists(S) == {s \in [1..Cardinality(S) -> S] : \A i, j \in DOMAIN s : i # j => s[i] # s[j]}

Init ==
    /\ users = {Alice, Bob}
    /\ log = {}
    /\ next_id = 1
    /\ sheet = <<>>
    /\ gs = [credentials |-> None, client |-> None, worksheet |-> None, built |-> 0]
    /\ phase = "init"
    /\ pool = None
    /\ pools = <<>>
    /\ listener_pc = "none"
    /\ conn = "none"
    /\ listening = FALSE
    /\ notifs = <<>>
    /\ notification_queue = <<>>
    /\ received = <<>>
    /\ overlapped = {}
    /\ dispatcher_pc = "none"
    /\ message = NoMessage
    /\ targets = <<>>
    /\ idx = 1
    /\ dead = <<>>
    /\ broadcasts = <<>>
    /\ cancelled = {}
    /\ connected_websockets = {}
    /\ ws_pc = [w \in Sockets |-> "new"]
    /\ runs = <<>>
    /\ managers = {}
    /\ calls = <<>>

\* what table log may hold when the app starts
InitialLogs == {{}, {[id |-> 1, barcode |-> Alice.barcode, event_time |-> T1, direction |-> "CHECKIN"]}}

\* the app once both before_serving hooks have run (startup, create_db_pool):
\* two pools, the global names the second, both tasks created
Serving(logs) ==
    /\ users = {Alice, Bob}
    /\ log \in logs
    /\ next_id = Cardinality(log) + 1
    /\ sheet = <<>>
    /\ gs = [credentials |-> None, client |-> None, worksheet |-> None, built |-> 0]
    /\ phase = "serving"
    /\ pool = 2
    /\ pools = <<"open", "open">>
    /\ listener_pc = "connect"
    /\ conn = "none"
    /\ listening = FALSE
    /\ notifs = <<>>
    /\ notification_queue = <<>>
    /\ received = <<>>
    /\ overlapped = {}
    /\ dispatcher_pc = "get"
    /\ message = NoMessage
    /\ targets = <<>>
    /\ idx = 1
    /\ dead = <<>>
    /\ broadcasts = <<>>
    /\ cancelled = {}
    /\ connected_websockets = {}
    /\ ws_pc = [w \in Sockets |-> "new"]
    /\ runs = <<>>
    /\ managers = {}
    /\ calls = <<>>

InitServing == Serving(InitialLogs)

\* ------------------------------------------------------- serving lifecycle
\* @app.before_serving startup: the pool, then the two tasks
startup ==
    /\ phase = "init"
    /\ pools' = Append(pools, "open")
    /\ pool' = Len(pools) + 1
    /\ listener_pc' = "connect"
    /\ dispatcher_pc' = "get"
    /\ phase' = "started"
    /\ UNCHANGED <<web, store, gsheet, conn, listening, notifs, queue, message, targets, idx, dead,
                   broadcasts, cancelled, registry, runs>>

\* @app.before_serving create_db_pool: a second pool replaces the global
create_db_pool ==
    /\ phase = "started"
    /\ pools' = Append(pools, "open")
    /\ pool' = Len(pools) + 1
    /\ phase' = "serving"
    /\ UNCHANGED <<web, store, gsheet, listener, queue, dispatcher, cancelled, registry, runs>>

\* @app.after_serving shutdown: cancel() both tasks, close the global pool
shutdown ==
    /\ phase = "serving"
    /\ cancelled' = {"listener", "dispatcher"}
    /\ pools' = IF pool # None THEN [pools EXCEPT ![pool] = "closed"] ELSE pools
    /\ phase' = "shut"
    /\ UNCHANGED <<web, store, gsheet, pool, listener, queue, dispatcher, registry, runs>>

\* @app.after_serving close_db_pool
close_db_pool ==
    /\ phase = "shut"
    /\ pools' = IF pool # None THEN [pools EXCEPT ![pool] = "closed"] ELSE pools
    /\ phase' = "stopped"
    /\ UNCHANGED <<web, store, gsheet, pool, listener, queue, dispatcher, cancelled, registry, runs>>

\* ---------------------------------------------- listen_to_log_notifications
\* conn = await asyncpg.connect(**DB_CONFIG)
listener_connect ==
    /\ listener_pc = "connect"
    /\ "listener" \notin cancelled
    /\ conn' = "open"
    /\ listener_pc' = "add_listener"
    /\ UNCHANGED <<web, store, gsheet, lifecycle, listening, notifs, queue, dispatcher, cancelled,
                   registry, runs>>

\* await conn.add_listener("log_changes", _listener); on a connection that is
\* gone it raises and the task ends outside the try
listener_add_listener ==
    /\ listener_pc = "add_listener"
    /\ "listener" \notin cancelled
    /\ IF conn = "open"
       THEN listening' = TRUE /\ listener_pc' = "sleep"
       ELSE listening' = FALSE /\ listener_pc' = "done"
    /\ UNCHANGED <<web, store, gsheet, lifecycle, conn, notifs, queue, dispatcher, cancelled,
                   registry, runs>>

\* while True: await asyncio.sleep(3600): an hour is over, the next begins;
\* the loop reads nothing, so neither does the step
listener_sleep ==
    /\ listener_pc = "sleep"
    /\ "listener" \notin cancelled
    /\ listener_pc' = "sleep"
    /\ UNCHANGED <<web, store, gsheet, lifecycle, conn, listening, notifs, queue, dispatcher,
                   cancelled, registry, runs>>

\* a listener with no finally: the cancelled task ends and leaves the connection
listener_cancelled_without_close ==
    /\ "listener" \in cancelled
    /\ listener_pc \in {"connect", "add_listener", "sleep"}
    /\ listener_pc' = "done"
    /\ cancelled' = cancelled \ {"listener"}
    /\ UNCHANGED <<web, store, gsheet, lifecycle, conn, listening, notifs, queue, dispatcher,
                   registry, runs>>

\* CancelledError at the task's await: inside the try the finally closes the
\* connection, before it the task just ends
listener_cancelled ==
    /\ "listener" \in cancelled
    /\ listener_pc \in {"connect", "add_listener", "sleep"}
    /\ IF listener_pc = "sleep"
       THEN conn' = "closed" /\ listening' = FALSE /\ notifs' = <<>>
       ELSE UNCHANGED <<conn, listening, notifs>>
    /\ listener_pc' = "done"
    /\ cancelled' = cancelled \ {"listener"}
    /\ UNCHANGED <<web, store, gsheet, lifecycle, queue, dispatcher, registry, runs>>

\* the dedicated connection drops unexpectedly: asyncpg forgets its listeners
\* and what had not been delivered; no task is told
connection_lost ==
    /\ conn = "open"
    /\ conn' = "lost"
    /\ listening' = FALSE
    /\ notifs' = <<>>
    /\ UNCHANGED <<web, store, gsheet, lifecycle, listener_pc, queue, dispatcher, cancelled,
                   registry, runs>>

\* the change source: a NOTIFY on channel log_changes with payload p reaches
\* the connection when _listener is registered on it, and nobody otherwise
NotifyLogChanges(p) ==
    IF listening
    THEN Len(received) + Len(notifs) < MaxEvents /\ notifs' = Append(notifs, p)
    ELSE UNCHANGED notifs

\* a change of table log made by any client of the store, as the listener sees it
notify(p) ==
    /\ listening
    /\ NotifyLogChanges(p)
    /\ UNCHANGED <<web, store, gsheet, lifecycle, listener_pc, conn, listening, queue, dispatcher,
                   cancelled, registry, runs>>

\* the run of the k-th event has been spawned and has ended
Finished(k) == k \in DOMAIN runs /\ runs[k].pc \in {"done", "failed"}

\* _listener(connection, pid, channel, payload): put_nowait of the event
_listener ==
    /\ listening
    /\ notifs # <<>>
    /\ LET event == [channel |-> "log_changes", payload |-> Head(notifs)]
       IN  /\ notification_queue' = Append(notification_queue, event)
           /\ received' = Append(received, event)
    /\ overlapped' = IF \E k \in DOMAIN received : ~Finished(k)
                     THEN overlapped \cup {Len(received) + 1}
                     ELSE overlapped
    /\ notifs' = Tail(notifs)
    /\ UNCHANGED <<web, store, gsheet, lifecycle, listener_pc, conn, listening, dispatcher,
                   cancelled, registry, runs>>

\* ------------------------------------------------------------ logs_websocket
\* connected_websockets.add(ws), then the handler sleeps
ws_connect(w) ==
    /\ phase = "serving"
    /\ ws_pc[w] = "new"
    /\ ws_pc' = [ws_pc EXCEPT ![w] = "open"]
    /\ connected_websockets' = connected_websockets \cup {w}
    /\ UNCHANGED <<web, store, gsheet, lifecycle, listener, queue, dispatcher, cancelled, runs>>

\* the client goes away: finally: connected_websockets.discard(ws)
ws_disconnect(w) ==
    /\ ws_pc[w] = "open"
    /\ ws_pc' = [ws_pc EXCEPT ![w] = "closed"]
    /\ connected_websockets' = connected_websockets \ {w}
    /\ UNCHANGED <<web, store, gsheet, lifecycle, listener, queue, dispatcher, cancelled, runs>>

\* ---------------------------------------------------- notification_dispatcher
\* a dispatcher that forgets the event's payload
MessageWithoutPayload(event) == [type |-> "logs_changed", channel |-> event.channel, payload |-> ""]

Message(event) == [type |-> "logs_changed", channel |-> event.channel, payload |-> event.payload]

\* a dispatcher that spawns no run while an earlier one is unfinished or has failed
SpawnRunUnlessBusy(rs, n) ==
    IF \E r \in DOMAIN rs : rs[r].pc # "done"
    THEN rs
    ELSE Append(rs, [pc |-> "fetch", rows |-> <<>>, event |-> n])

\* asyncio.create_task(refresh_sheet_from_db()): the task exists, it has not run
SpawnRun(rs, n) == Append(rs, [pc |-> "fetch", rows |-> <<>>, event |-> n])

\* an iteration that leaves the dead connections in the registry
EndBroadcastKeepingDead(deadList) ==
    /\ connected_websockets' = connected_websockets
    /\ runs' = SpawnRun(runs, Len(broadcasts'))
    /\ dispatcher_pc' = "get"

\* the end of one loop iteration, reached without an await after the last
\* send: for ws in dead: discard(ws); create_task(...); back to queue.get()
EndBroadcast(deadList) ==
    /\ connected_websockets' = connected_websockets \ Range(deadList)
    /\ runs' = SpawnRun(runs, Len(broadcasts'))
    /\ dispatcher_pc' = "get"

\* the run r has been spawned and has not ended
InFlight(r) == r \in DOMAIN runs /\ runs[r].pc \notin {"done", "failed"}

\* a dispatcher that awaits the run it has spawned before it takes the next event
DispatcherAtGetAfterRuns ==
    /\ dispatcher_pc = "get"
    /\ "dispatcher" \notin cancelled
    /\ \A r \in DOMAIN runs : ~InFlight(r)

\* the dispatcher is suspended in await notification_queue.get(): nothing but
\* the queue holds it there
DispatcherAtGet == dispatcher_pc = "get" /\ "dispatcher" \notin cancelled

\* event = await notification_queue.get(); message; dead = [];
\* list(connected_websockets).  With no connection registered the iteration
\* runs to its end without an await.
dispatcher_get ==
    /\ DispatcherAtGet
    /\ notification_queue # <<>>
    /\ notification_queue' = Tail(notification_queue)
    /\ message' = Message(Head(notification_queue))
    /\ dead' = <<>>
    /\ idx' = 1
    /\ targets' \in Lists(connected_websockets)
    /\ broadcasts' = Append(broadcasts, [message |-> message', registry |-> connected_websockets,
                                         targets |-> targets', sent |-> <<>>, failed |-> {}])
    /\ IF connected_websockets = {}
       THEN EndBroadcast(<<>>)
       ELSE dispatcher_pc' = "send" /\ UNCHANGED <<connected_websockets, runs>>
    /\ UNCHANGED <<web, store, gsheet, lifecycle, listener, received, overlapped, cancelled, ws_pc>>

\* a loop that a failed send ends: the targets after it are never sent to
dispatcher_send_abort(ok) ==
    /\ dispatcher_pc = "send"
    /\ "dispatcher" \notin cancelled
    /\ idx <= Len(targets)
    /\ LET ws == targets[idx]
           n == Len(broadcasts)
       IN  /\ broadcasts' = [broadcasts EXCEPT
                  ![n].sent = IF ok THEN Append(@, [ws |-> ws, message |-> message]) ELSE @,
                  ![n].failed = IF ok THEN @ ELSE @ \cup {ws}]
           /\ dead' = IF ok THEN dead ELSE Append(dead, ws)
    /\ idx' = idx + 1
    /\ IF idx = Len(targets) \/ ~ok
       THEN EndBroadcast(dead')
       ELSE UNCHANGED <<dispatcher_pc, connected_websockets, runs>>
    /\ UNCHANGED <<web, store, gsheet, lifecycle, listener, queue, message, targets, cancelled, ws_pc>>

\* a loop over the registry itself, not over a copy of it: a connection added
\* or removed while a send was suspended ends the iteration with an error
dispatcher_send_live(ok) ==
    /\ dispatcher_pc = "send"
    /\ "dispatcher" \notin cancelled
    /\ idx <= Len(targets)
    /\ LET ws == targets[idx]
           n == Len(broadcasts)
       IN  /\ broadcasts' = [broadcasts EXCEPT
                  ![n].sent = IF ok THEN Append(@, [ws |-> ws, message |-> message]) ELSE @,
                  ![n].failed = IF ok THEN @ ELSE @ \cup {ws}]
           /\ dead' = IF ok THEN dead ELSE Append(dead, ws)
    /\ idx' = idx + 1
    /\ IF connected_websockets # Range(targets)
       THEN dispatcher_pc' = "done" /\ UNCHANGED <<connected_websockets, runs>>
       ELSE IF idx = Len(targets)
            THEN EndBroadcast(dead')
            ELSE UNCHANGED <<dispatcher_pc, connected_websockets, runs>>
    /\ UNCHANGED <<web, store, gsheet, lifecycle, listener, queue, message, targets, cancelled, ws_pc>>

\* what one await ws.send_json(message) leaves behind: ok, the client has the
\* message; not ok, the except appends ws to dead.  After the last target the
\* iteration ends.
dispatcher_send(ok) ==
    /\ dispatcher_pc = "send"
    /\ "dispatcher" \notin cancelled
    /\ idx <= Len(targets)
    /\ LET ws == targets[idx]
           n == Len(broadcasts)
       IN  /\ broadcasts' = [broadcasts EXCEPT
                  ![n].sent = IF ok THEN Append(@, [ws |-> ws, message |-> message]) ELSE @,
                  ![n].failed = IF ok THEN @ ELSE @ \cup {ws}]
           /\ dead' = IF ok THEN dead ELSE Append(dead, ws)
    /\ idx' = idx + 1
    /\ IF idx = Len(targets)
       THEN EndBroadcast(dead')
       ELSE UNCHANGED <<dispatcher_pc, connected_websockets, runs>>
    /\ UNCHANGED <<web, store, gsheet, lifecycle, listener, queue, message, targets, cancelled, ws_pc>>

\* CancelledError at queue.get() or at send_json: not an Exception, the task ends
dispatcher_cancelled ==
    /\ "dispatcher" \in cancelled
    /\ dispatcher_pc \in {"get", "send"}
    /\ dispatcher_pc' = "done"
    /\ cancelled' = cancelled \ {"dispatcher"}
    /\ UNCHANGED <<web, store, gsheet, lifecycle, listener, queue, message, targets, idx, dead,
                   broadcasts, registry, runs>>

\* ------------------------------------------------------------ table log
\* INSERT INTO log (barcode, direction, event_time) VALUES ($1, $2, $3): the
\* foreign key wants a user of that barcode, the CHECK a known direction
insert_log(b, d, t) ==
    /\ next_id <= MaxLogRows
    /\ \E u \in users : u.barcode = b
    /\ d \in Directions
    /\ log' = log \cup {[id |-> next_id, barcode |-> b, event_time |-> t, direction |-> d]}
    /\ next_id' = next_id + 1
    /\ NotifyLogChanges("INSERT")
    /\ UNCHANGED <<web, users, gsheet, lifecycle, listener_pc, conn, listening, queue, dispatcher,
                   cancelled, registry, runs>>

\* DELETE FROM log WHERE id = $1, of a row that exists
delete_log_row(id) ==
    /\ \E r \in log : r.id = id
    /\ log' = {r \in log : r.id # id}
    /\ NotifyLogChanges("DELETE")
    /\ UNCHANGED <<web, users, next_id, gsheet, lifecycle, listener_pc, conn, listening, queue,
                   dispatcher, cancelled, registry, runs>>

\* ------------------------------------------------------ refresh_sheet_from_db
AtPc(r, pc) == r \in DOMAIN runs /\ runs[r].pc = pc

\* rows_for_sheet = await fetch_last_inbound_rows(); then the executor takes over
run_fetch(r) ==
    /\ AtPc(r, "fetch")
    /\ \E rows \in fetch_last_inbound_rows(users, log) :
           runs' = [runs EXCEPT ![r].pc = "get_worksheet", ![r].rows = rows]
    /\ UNCHANGED <<web, store, gsheet, lifecycle, listener, queue, dispatcher, cancelled, registry>>

\* get_worksheet: if _worksheet is None
run_get_worksheet(r) ==
    /\ AtPc(r, "get_worksheet")
    /\ runs' = [runs EXCEPT ![r].pc = IF gs.worksheet = None THEN "build" ELSE "clear"]
    /\ UNCHANGED <<web, store, gsheet, lifecycle, listener, queue, dispatcher, cancelled, registry>>

\* get_worksheet, inside the if: credentials and client when they are None,
\* then _worksheet = _client.open_by_key(...).worksheet(...)
run_build_worksheet(r) ==
    /\ AtPc(r, "build")
    /\ gs' = [credentials |-> IF gs.credentials = None THEN gs.built + 1 ELSE gs.credentials,
              client |-> IF gs.client = None THEN gs.built + 1 ELSE gs.client,
              worksheet |-> gs.built + 1,
              built |-> gs.built + 1]
    /\ runs' = [runs EXCEPT ![r].pc = "clear"]
    /\ UNCHANGED <<web, store, sheet, lifecycle, listener, queue, dispatcher, cancelled, registry>>

\* a clear that leaves the range as it is
batch_clear_nothing(sh) == sh

\* ws.batch_clear(["A2:D"]); if not rows_for_sheet: return
batch_clear(sh) == <<>>

run_clear(r) ==
    /\ AtPc(r, "clear")
    /\ sheet' = batch_clear(sheet)
    /\ runs' = [runs EXCEPT ![r].pc = IF runs[r].rows = <<>> THEN "done" ELSE "write"]
    /\ UNCHANGED <<web, store, gs, lifecycle, listener, queue, dispatcher, cancelled, registry>>

\* ws.update("A2", rows): the rows land on the first Len(rows) rows of the
\* range, what lies below them stays
update(sh, rows) ==
    [i \in 1..(IF Len(sh) > Len(rows) THEN Len(sh) ELSE Len(rows)) |->
        IF i <= Len(rows) THEN rows[i] ELSE sh[i]]

run_write(r) ==
    /\ AtPc(r, "write")
    /\ sheet' = update(sheet, runs[r].rows)
    /\ runs' = [runs EXCEPT ![r].pc = "done"]
    /\ UNCHANGED <<web, store, gs, lifecycle, listener, queue, dispatcher, cancelled, registry>>

\* a failure that reaches the dispatcher, as it would if the run were awaited
run_fail_reaching_dispatcher(r) ==
    /\ r \in DOMAIN runs
    /\ runs[r].pc \in {"fetch", "build", "clear", "write"}
    /\ runs' = [runs EXCEPT ![r].pc = "failed"]
    /\ dispatcher_pc' = "done"
    /\ UNCHANGED <<web, store, gsheet, lifecycle, listener, queue, message, targets, idx, dead,
                   broadcasts, cancelled, registry>>

\* the query, the construction of the client, the clear or the write raises:
\* the exception ends the task and stays in it
run_fail(r) ==
    /\ r \in DOMAIN runs
    /\ runs[r].pc \in {"fetch", "build", "clear", "write"}
    /\ runs' = [runs EXCEPT ![r].pc = "failed"]
    /\ UNCHANGED <<web, store, gsheet, lifecycle, listener, queue, dispatcher, cancelled, registry>>

\* the fan-out while the app serves: the listener, the dispatcher, the registry
NextBroadcast ==
    \/ listener_connect
    \/ listener_add_listener
    \/ listener_sleep
    \/ \E p \in Payloads : notify(p)
    \/ _listener
    \/ \E w \in Sockets : ws_connect(w)
    \/ \E w \in Sockets : ws_disconnect(w)
    \/ dispatcher_get
    \/ \E ok \in BOOLEAN : dispatcher_send(ok)

SpecBroadcast == Serving({{}}) /\ [][NextBroadcast]_vars


\* the sheet synchronisation: writes to table log, the listener, the
\* dispatcher with no websocket connected, the sync runs
NextSync ==
    \/ listener_connect
    \/ listener_add_listener
    \/ \E b \in Barcodes, d \in Directions, t \in SyncTimes : insert_log(b, d, t)
    \/ \E id \in 1..MaxLogRows : delete_log_row(id)
    \/ _listener
    \/ dispatcher_get
    \/ \E r \in 1..MaxEvents : run_fetch(r)
    \/ \E r \in 1..MaxEvents : run_get_worksheet(r)
    \/ \E r \in 1..MaxEvents : run_build_worksheet(r)
    \/ \E r \in 1..MaxEvents : run_clear(r)
    \/ \E r \in 1..MaxEvents : run_write(r)
    \/ \E r \in 1..MaxEvents : run_fail(r)

SpecSync == InitServing /\ [][NextSync]_vars


\* the dispatcher and its sync runs on a store nobody writes: change
\* notifications, no websocket connected, runs that may fail
NextRuns ==
    \/ listener_connect
    \/ listener_add_listener
    \/ \E p \in Payloads : notify(p)
    \/ _listener
    \/ dispatcher_get
    \/ \E r \in 1..MaxEvents : run_fetch(r)
    \/ \E r \in 1..MaxEvents : run_get_worksheet(r)
    \/ \E r \in 1..MaxEvents : run_build_worksheet(r)
    \/ \E r \in 1..MaxEvents : run_clear(r)
    \/ \E r \in 1..MaxEvents : run_write(r)
    \/ \E r \in 1..MaxEvents : run_fail(r)

SpecRuns == InitServing /\ [][NextRuns]_vars

\* every table log of at most n rows over the users' barcodes
LogsUpTo(n) ==
    UNION {{{[id |-> i, barcode |-> f[i][1], direction |-> f[i][2], event_time |-> f[i][3]] : i \in 1..k} :
                f \in [1..k -> Barcodes \X Directions \X EventTimes]} : k \in 0..n}

\* the app when the first change event has been dispatched and its sync run
\* is spawned, on any table log
InitView ==
    /\ users = {Alice, Bob}
    /\ log \in LogsUpTo(MaxViewRows)
    /\ next_id = Cardinality(log) + 1
    /\ sheet = <<>>
    /\ gs = [credentials |-> None, client |-> None, worksheet |-> None, built |-> 0]
    /\ phase = "serving"
    /\ pool = 2
    /\ pools = <<"open", "open">>
    /\ listener_pc = "sleep"
    /\ conn = "open"
    /\ listening = TRUE
    /\ notifs = <<>>
    /\ notification_queue = <<>>
    /\ received = <<[channel |-> "log_changes", payload |-> "INSERT"]>>
    /\ overlapped = {}
    /\ dispatcher_pc = "get"
    /\ message = Message(received[1])
    /\ targets = <<>>
    /\ idx = 1
    /\ dead = <<>>
    /\ broadcasts = <<[message |-> message, registry |-> {}, targets |-> <<>>, sent |-> <<>>,
                       failed |-> {}]>>
    /\ cancelled = {}
    /\ connected_websockets = {}
    /\ ws_pc = [w \in Sockets |-> "new"]
    /\ runs = SpawnRun(<<>>, 1)
    /\ managers = {}
    /\ calls = <<>>

\* one sync run, from its query to the sheet
NextView ==
    \/ run_fetch(1)
    \/ run_get_worksheet(1)
    \/ run_build_worksheet(1)
    \/ run_clear(1)
    \/ run_write(1)
    \/ run_fail(1)

SpecView == InitView /\ [][NextView]_vars


\* the app serving with the listener registered and nothing received yet, on
\* any table log of up to MaxLogRows rows
InitTwice ==
    /\ users = {Alice, Bob}
    /\ log \in LogsUpTo(MaxLogRows)
    /\ next_id = Cardinality(log) + 1
    /\ sheet = <<>>
    /\ gs = [credentials |-> None, client |-> None, worksheet |-> None, built |-> 0]
    /\ phase = "serving"
    /\ pool = 2
    /\ pools = <<"open", "open">>
    /\ listener_pc = "sleep"
    /\ conn = "open"
    /\ listening = TRUE
    /\ notifs = <<>>
    /\ notification_queue = <<>>
    /\ received = <<>>
    /\ overlapped = {}
    /\ dispatcher_pc = "get"
    /\ message = NoMessage
    /\ targets = <<>>
    /\ idx = 1
    /\ dead = <<>>
    /\ broadcasts = <<>>
    /\ cancelled = {}
    /\ connected_websockets = {}
    /\ ws_pc = [w \in Sockets |-> "new"]
    /\ runs = <<>>
    /\ managers = {}
    /\ calls = <<>>

\* a notification that comes when every event so far has had its run and the
\* run has ended: the runs follow one another
sequential_notify(p) ==
    /\ notifs = <<>>
    /\ notification_queue = <<>>
    /\ Len(runs) = Len(received)
    /\ \A r \in DOMAIN runs : Finished(r)
    /\ notify(p)

\* sync runs one after the other on a store that nothing changes
NextTwice ==
    \/ \E p \in Payloads : sequential_notify(p)
    \/ _listener
    \/ dispatcher_get
    \/ \E r \in 1..MaxEvents :
        \/ run_fetch(r)
        \/ run_get_worksheet(r)
        \/ run_build_worksheet(r)
        \/ run_clear(r)
        \/ run_write(r)
        \/ run_fail(r)

SpecTwice == InitTwice /\ [][NextTwice]_vars

\* what an earlier life of the app left in the range A2:D
OldSheet ==
    <<<<Bob.barcode, Bob.nome, Bob.cognome, format_event_time_ita(T3)>>,
      <<Alice.barcode, Alice.nome, Alice.cognome, format_event_time_ita(T1)>>>>

\* the app when the first sync run is spawned, the sheet holding older rows
InitStale ==
    /\ users = {Alice, Bob}
    /\ log \in LogsUpTo(MaxViewRows)
    /\ next_id = Cardinality(log) + 1
    /\ sheet = OldSheet
    /\ gs = [credentials |-> None, client |-> None, worksheet |-> None, built |-> 0]
    /\ phase = "serving"
    /\ pool = 2
    /\ pools = <<"open", "open">>
    /\ listener_pc = "sleep"
    /\ conn = "open"
    /\ listening = TRUE
    /\ notifs = <<>>
    /\ notification_queue = <<>>
    /\ received = <<[channel |-> "log_changes", payload |-> "INSERT"]>>
    /\ overlapped = {}
    /\ dispatcher_pc = "get"
    /\ message = Message(received[1])
    /\ targets = <<>>
    /\ idx = 1
    /\ dead = <<>>
    /\ broadcasts = <<[message |-> message, registry |-> {}, targets |-> <<>>, sent |-> <<>>,
                       failed |-> {}]>>
    /\ cancelled = {}
    /\ connected_websockets = {}
    /\ ws_pc = [w \in Sockets |-> "new"]
    /\ runs = SpawnRun(<<>>, 1)
    /\ managers = {}
    /\ calls = <<>>

SpecStale == InitStale /\ [][NextView]_vars

\* ---------------------------------------------------------------- auth.py
SECRET_KEY == "dev_secret_key_change_me"

\* pwd_context.hash / pwd_context.verify
hash_password(password) == <<"bcrypt", password>>
verify_password(plain_password, hashed_password) == hashed_password = <<"bcrypt", plain_password>>

\* jwt.encode of the data and an expiry 24 hours ahead, signed with SECRET_KEY
create_access_token(data) ==
    [sub |-> data.sub, username |-> data.username, expired |-> FALSE, key |-> SECRET_KEY]

\* jwt.decode: the payload, or None for a bad signature or an expired token
decode_token(token) ==
    IF token.key = SECRET_KEY /\ ~token.expired
    THEN Some([sub |-> token.sub, username |-> token.username])
    ELSE Nothing

\* the Authorization header "<scheme> <token>"
Header(scheme, token) == Some([scheme |-> scheme, token |-> token])

\* the decorator auth_required: 401 when it aborts, 0 when it lets the request through
auth_required(auth_header) ==
    IF auth_header = Nothing THEN 401
    ELSE IF auth_header[1].scheme \notin {"Bearer", "bearer"} THEN 401
    ELSE IF decode_token(auth_header[1].token) = Nothing THEN 401
    ELSE 0

\* ------------------------------------------------------------ HTTP handlers
\* a request as it arrives, and what the handler holds of it while it runs
Call(op, args, pc) == [op |-> op, args |-> args, pc |-> pc, status |-> 0, body |-> Nothing]

\* the handler returns or aborts
Answer(c, status, body) == [c EXCEPT !.pc = "done", !.status = status, !.body = body]

HasUser(b) == \E u \in users : u.barcode = b

\* INSERT ... ON CONFLICT (barcode) DO UPDATE, answered 201 either way
create_user_upsert(barcode, nome, cognome) ==
    /\ Len(calls) < MaxCalls
    /\ LET c == Call("create_user", [barcode |-> barcode, nome |-> nome, cognome |-> cognome], "insert")
       IN  IF ~Truthy(barcode) \/ Len(barcode[1]) # 13 \/ ~isdigit(barcode[1])
           THEN calls' = Append(calls, Answer(c, 400, Nothing)) /\ UNCHANGED users
           ELSE IF ~Truthy(nome) \/ ~Truthy(cognome)
           THEN calls' = Append(calls, Answer(c, 400, Nothing)) /\ UNCHANGED users
           ELSE /\ users' = {u \in users : u.barcode # barcode[1]}
                              \cup {[barcode |-> barcode[1], nome |-> nome[1], cognome |-> cognome[1]]}
                /\ calls' = Append(calls, Answer(c, 201, Nothing))
    /\ UNCHANGED <<log, next_id, gsheet, lifecycle, listener, queue, dispatcher, cancelled,
                   registry, runs, managers>>

\* POST /users: the checks of the body, then one INSERT that the primary key
\* of table users lets through or not
create_user(barcode, nome, cognome) ==
    /\ Len(calls) < MaxCalls
    /\ LET c == Call("create_user", [barcode |-> barcode, nome |-> nome, cognome |-> cognome], "insert")
       IN  IF ~Truthy(barcode) \/ Len(barcode[1]) # 13 \/ ~isdigit(barcode[1])
           THEN calls' = Append(calls, Answer(c, 400, Nothing)) /\ UNCHANGED users
           ELSE IF ~Truthy(nome) \/ ~Truthy(cognome)
           THEN calls' = Append(calls, Answer(c, 400, Nothing)) /\ UNCHANGED users
           ELSE IF HasUser(barcode[1])
           THEN calls' = Append(calls, Answer(c, 409, Nothing)) /\ UNCHANGED users
           ELSE /\ users' = users \cup {[barcode |-> barcode[1], nome |-> nome[1], cognome |-> cognome[1]]}
                /\ calls' = Append(calls, Answer(c, 201, Nothing))
    /\ UNCHANGED <<log, next_id, gsheet, lifecycle, listener, queue, dispatcher, cancelled,
                   registry, runs, managers>>

\* a handler that goes straight to the DELETE on table users
delete_user_begin_keeping_logs(barcode, authorization) ==
    /\ Len(calls) < MaxCalls
    /\ calls' = Append(calls, Call("delete_user", [barcode |-> barcode, authorization |-> authorization],
                                   "delete_users"))
    /\ UNCHANGED <<store, gsheet, lifecycle, listener, queue, dispatcher, cancelled,
                   registry, runs, managers>>

\* DELETE /users/<barcode>, first statement: DELETE FROM log WHERE barcode = $1.
\* Nothing reads the Authorization header.
delete_user_begin(barcode, authorization) ==
    /\ Len(calls) < MaxCalls
    /\ calls' = Append(calls, Call("delete_user", [barcode |-> barcode, authorization |-> authorization],
                                   "delete_users"))
    /\ log' = {l \in log : l.barcode # barcode}
    /\ IF log' # log THEN NotifyLogChanges("DELETE") ELSE UNCHANGED notifs
    /\ UNCHANGED <<users, next_id, gsheet, lifecycle, listener_pc, conn, listening, queue, dispatcher,
                   cancelled, registry, runs, managers>>

\* DELETE /users/<barcode>, second statement: DELETE FROM users WHERE barcode = $1,
\* which the foreign key of table log refuses while a log row names the user
delete_user_end(i) ==
    /\ i \in DOMAIN calls
    /\ calls[i].op = "delete_user"
    /\ calls[i].pc = "delete_users"
    /\ LET barcode == calls[i].args.barcode
       IN  IF \E l \in log : l.barcode = barcode
           THEN calls' = [calls EXCEPT ![i] = Answer(@, 500, Nothing)] /\ UNCHANGED users
           ELSE /\ users' = {u \in users : u.barcode # barcode}
                /\ calls' = [calls EXCEPT ![i] = Answer(@, IF users' = users THEN 404 ELSE 200, Nothing)]
    /\ UNCHANGED <<log, next_id, gsheet, lifecycle, listener, queue, dispatcher, cancelled,
                   registry, runs, managers>>

\* POST /logs up to the lookup of the user: the checks of the body, then
\* SELECT 1 FROM users WHERE barcode = $1
create_log_begin(barcode, direction, event_time) ==
    /\ Len(calls) < MaxCalls
    /\ LET c == Call("create_log", [barcode |-> barcode, direction |-> direction,
                                    event_time |-> event_time], "insert")
       IN  IF ~Truthy(barcode)
           THEN calls' = Append(calls, Answer(c, 400, Nothing))
           ELSE IF direction \notin {Some("CHECKIN"), Some("CHECKOUT")}
           THEN calls' = Append(calls, Answer(c, 400, Nothing))
           ELSE IF ~HasUser(barcode[1])
           THEN calls' = Append(calls, Answer(c, 400, Nothing))
           ELSE calls' = Append(calls, c)
    /\ UNCHANGED <<store, gsheet, lifecycle, listener, queue, dispatcher, cancelled,
                   registry, runs, managers>>

\* an INSERT into a table log that has no foreign key on barcode
create_log_insert_unreferenced(i) ==
    /\ i \in DOMAIN calls
    /\ calls[i].op = "create_log"
    /\ calls[i].pc = "insert"
    /\ LET a == calls[i].args
       IN  IF a.event_time # Nothing /\ ~IsDatetime(a.event_time[1])
           THEN /\ calls' = [calls EXCEPT ![i] = Answer(@, 500, Nothing)]
                /\ UNCHANGED <<log, next_id, notifs>>
           ELSE /\ next_id <= MaxLogRows
                /\ next_id' = next_id + 1
                /\ log' = log \cup {[id |-> next_id, barcode |-> a.barcode[1],
                                     event_time |-> IF a.event_time = Nothing THEN Now
                                                    ELSE a.event_time[1],
                                     direction |-> a.direction[1]]}
                /\ NotifyLogChanges("INSERT")
                /\ calls' = [calls EXCEPT ![i] = Answer(@, 201, Some(next_id))]
    /\ UNCHANGED <<users, gsheet, lifecycle, listener_pc, conn, listening, queue, dispatcher,
                   cancelled, registry, runs, managers>>

\* POST /logs, the INSERT ... RETURNING id: with event_time the body's string
\* is the third argument, without it the column's default applies; the
\* foreign key wants the user to be there still
create_log_insert(i) ==
    /\ i \in DOMAIN calls
    /\ calls[i].op = "create_log"
    /\ calls[i].pc = "insert"
    /\ LET a == calls[i].args
       IN  IF a.event_time # Nothing /\ ~IsDatetime(a.event_time[1])
           THEN /\ calls' = [calls EXCEPT ![i] = Answer(@, 500, Nothing)]
                /\ UNCHANGED <<log, next_id, notifs>>
           ELSE /\ next_id <= MaxLogRows
                /\ next_id' = next_id + 1
                /\ IF ~HasUser(a.barcode[1])
                   THEN /\ calls' = [calls EXCEPT ![i] = Answer(@, 500, Nothing)]
                        /\ UNCHANGED <<log, notifs>>
                   ELSE /\ log' = log \cup {[id |-> next_id, barcode |-> a.barcode[1],
                                             event_time |-> IF a.event_time = Nothing THEN Now
                                                            ELSE a.event_time[1],
                                             direction |-> a.direction[1]]}
                        /\ NotifyLogChanges("INSERT")
                        /\ calls' = [calls EXCEPT ![i] = Answer(@, 201, Some(next_id))]
    /\ UNCHANGED <<users, gsheet, lifecycle, listener_pc, conn, listening, queue, dispatcher,
                   cancelled, registry, runs, managers>>

\* the ids a DELETE /logs/<id> may name: those the table can hold and one more
LogIds == 1..(MaxLogRows + 1)

\* a handler whose DELETE takes every row of the barcode of the row named
delete_log_of_barcode(log_id) ==
    /\ Len(calls) < MaxCalls
    /\ LET c == Call("delete_log", [log_id |-> log_id], "delete")
       IN  /\ log' = {l \in log : \A r \in log : r.id = log_id => l.barcode # r.barcode}
           /\ IF log' = log
              THEN calls' = Append(calls, Answer(c, 404, Nothing)) /\ UNCHANGED notifs
              ELSE calls' = Append(calls, Answer(c, 200, Nothing)) /\ NotifyLogChanges("DELETE")
    /\ UNCHANGED <<users, next_id, gsheet, lifecycle, listener_pc, conn, listening, queue, dispatcher,
                   cancelled, registry, runs, managers>>

\* DELETE /logs/<id>: one DELETE FROM log WHERE id = $1, 404 when it took no row
delete_log(log_id) ==
    /\ Len(calls) < MaxCalls
    /\ LET c == Call("delete_log", [log_id |-> log_id], "delete")
       IN  /\ log' = {l \in log : l.id # log_id}
           /\ IF log' = log
              THEN calls' = Append(calls, Answer(c, 404, Nothing)) /\ UNCHANGED notifs
              ELSE calls' = Append(calls, Answer(c, 200, Nothing)) /\ NotifyLogChanges("DELETE")
    /\ UNCHANGED <<users, next_id, gsheet, lifecycle, listener_pc, conn, listening, queue, dispatcher,
                   cancelled, registry, runs, managers>>

\* table managers as the app finds it: one manager short of the limit, all
\* active, all with the same password
InitialManagers ==
    {[id |-> i, username |-> "manager_" \o ToString(i - 1),
      password_hash |-> hash_password("password123"), active |-> TRUE] : i \in 1..(MaxManagers - 1)}

\* POST /auth/register up to SELECT COUNT(*) FROM managers
register_begin(username, password) ==
    /\ Len(calls) < MaxAuthCalls
    /\ LET c == Call("register", [username |-> username, password |-> password], "exists")
       IN  IF ~Truthy(username) \/ ~Truthy(password)
           THEN calls' = Append(calls, Answer(c, 400, Nothing))
           ELSE IF Cardinality(managers) >= MaxManagers
           THEN calls' = Append(calls, Answer(c, 403, Nothing))
           ELSE calls' = Append(calls, c)
    /\ UNCHANGED <<store, gsheet, lifecycle, listener, queue, dispatcher, cancelled,
                   registry, runs, managers>>

\* SELECT 1 FROM managers WHERE username = $1
register_exists(i) ==
    /\ i \in DOMAIN calls
    /\ calls[i].op = "register"
    /\ calls[i].pc = "exists"
    /\ IF \E m \in managers : m.username = calls[i].args.username[1]
       THEN calls' = [calls EXCEPT ![i] = Answer(@, 409, Nothing)]
       ELSE calls' = [calls EXCEPT ![i].pc = "insert"]
    /\ UNCHANGED <<store, gsheet, lifecycle, listener, queue, dispatcher, cancelled,
                   registry, runs, managers>>

\* INSERT INTO managers (username, password_hash, active) VALUES ($1, $2, False);
\* whether the table refuses a second row of a username is the table's
\* declaration, which either way may be
register_insert(i) ==
    /\ i \in DOMAIN calls
    /\ calls[i].op = "register"
    /\ calls[i].pc = "insert"
    /\ LET a == calls[i].args
           row == [id |-> Cardinality(managers) + 1, username |-> a.username[1],
                   password_hash |-> hash_password(a.password[1]), active |-> FALSE]
       IN  \/ /\ managers' = managers \cup {row}
              /\ calls' = [calls EXCEPT ![i] = Answer(@, 201, Nothing)]
           \/ /\ \E m \in managers : m.username = a.username[1]
              /\ calls' = [calls EXCEPT ![i] = Answer(@, 500, Nothing)]
              /\ UNCHANGED managers
    /\ UNCHANGED <<store, gsheet, lifecycle, listener, queue, dispatcher, cancelled,
                   registry, runs>>

\* a login that does not look at the column active
login_ignoring_active(username, password) ==
    /\ Len(calls) < MaxAuthCalls
    /\ LET c == Call("login", [username |-> username, password |-> password], "fetchrow")
       IN  IF ~Truthy(username) \/ ~Truthy(password)
           THEN calls' = Append(calls, Answer(c, 400, Nothing))
           ELSE IF ~\E m \in managers : m.username = username[1]
           THEN calls' = Append(calls, Answer(c, 401, Nothing))
           ELSE \E row \in {m \in managers : m.username = username[1]} :
                    IF ~verify_password(password[1], row.password_hash)
                    THEN calls' = Append(calls, Answer(c, 401, Nothing))
                    ELSE calls' = Append(calls, Answer(c, 200, Some(create_access_token(
                                     [sub |-> ToString(row.id), username |-> username[1]]))))
    /\ UNCHANGED <<store, gsheet, lifecycle, listener, queue, dispatcher, cancelled,
                   registry, runs, managers>>

\* POST /auth/login: one fetchrow by username, then the password, then active
login(username, password) ==
    /\ Len(calls) < MaxAuthCalls
    /\ LET c == Call("login", [username |-> username, password |-> password], "fetchrow")
       IN  IF ~Truthy(username) \/ ~Truthy(password)
           THEN calls' = Append(calls, Answer(c, 400, Nothing))
           ELSE IF ~\E m \in managers : m.username = username[1]
           THEN calls' = Append(calls, Answer(c, 401, Nothing))
           ELSE \E row \in {m \in managers : m.username = username[1]} :
                    IF ~verify_password(password[1], row.password_hash)
                    THEN calls' = Append(calls, Answer(c, 401, Nothing))
                    ELSE IF ~row.active
                    THEN calls' = Append(calls, Answer(c, 403, Nothing))
                    ELSE calls' = Append(calls, Answer(c, 200, Some(create_access_token(
                                     [sub |-> ToString(row.id), username |-> username[1]]))))
    /\ UNCHANGED <<store, gsheet, lifecycle, listener, queue, dispatcher, cancelled,
                   registry, runs, managers>>

\* the admin's UPDATE managers SET active = TRUE WHERE username = $1
activate(username) ==
    /\ \E m \in managers : m.username = username /\ ~m.active
    /\ managers' = {IF m.username = username THEN [m EXCEPT !.active = TRUE] ELSE m : m \in managers}
    /\ UNCHANGED <<store, gsheet, lifecycle, listener, queue, dispatcher, cancelled,
                   registry, runs, calls>>

\* the app serving, table managers one short of the limit
InitAuth ==
    /\ users = {Alice, Bob}
    /\ log = {}
    /\ next_id = 1
    /\ sheet = <<>>
    /\ gs = [credentials |-> None, client |-> None, worksheet |-> None, built |-> 0]
    /\ phase = "serving"
    /\ pool = 2
    /\ pools = <<"open", "open">>
    /\ listener_pc = "connect"
    /\ conn = "none"
    /\ listening = FALSE
    /\ notifs = <<>>
    /\ notification_queue = <<>>
    /\ received = <<>>
    /\ overlapped = {}
    /\ dispatcher_pc = "get"
    /\ message = NoMessage
    /\ targets = <<>>
    /\ idx = 1
    /\ dead = <<>>
    /\ broadcasts = <<>>
    /\ cancelled = {}
    /\ connected_websockets = {}
    /\ ws_pc = [w \in Sockets |-> "new"]
    /\ runs = <<>>
    /\ managers = InitialManagers
    /\ calls = <<>>

\* the handlers of auth.py, their requests interleaved, and the admin
NextAuth ==
    \/ \E u \in {Some("manager_9"), Some("manager_10"), Nothing} :
            register_begin(u, Some("password123"))
    \/ \E i \in 1..MaxAuthCalls : register_exists(i)
    \/ \E i \in 1..MaxAuthCalls : register_insert(i)
    \/ \E u \in {Some("manager_0"), Some("manager_9")}, p \in {Some("password123"), Some("wrong"), Nothing} :
            login(u, p)
    \/ \E u \in {"manager_9", "manager_10"} : activate(u)

SpecAuth == InitAuth /\ [][NextAuth]_vars

\* a handler that answers with the last EAN generated when the tries are used up
get_new_ean_lookup_without_abort(i) ==
    /\ i \in DOMAIN calls
    /\ calls[i].op = "get_new_ean"
    /\ calls[i].pc = "lookup"
    /\ LET f == calls[i].args
           row == HasUser(f.new_ean)
       IN  \E ean \in (IF row THEN genera_ean13 ELSE {f.new_ean}) :
              LET g == [new_ean |-> ean, found |-> row, count |-> f.count + 1]
              IN  IF g.found /\ g.count < MaxLookups
                  THEN calls' = [calls EXCEPT ![i].args = g]
                  ELSE calls' = [calls EXCEPT ![i] = Answer([@ EXCEPT !.args = g], 200, Some(g.new_ean))]
    /\ UNCHANGED <<store, gsheet, lifecycle, listener, queue, dispatcher, cancelled,
                   registry, runs, managers>>

\* GET /users/newean: new_ean = genera_ean13(); found = True; count = 0
get_new_ean_begin ==
    /\ Len(calls) < MaxCalls
    /\ \E ean \in genera_ean13 :
           calls' = Append(calls, Call("get_new_ean", [new_ean |-> ean, found |-> TRUE, count |-> 0],
                                       "lookup"))
    /\ UNCHANGED <<store, gsheet, lifecycle, listener, queue, dispatcher, cancelled,
                   registry, runs, managers>>

\* one turn of the while loop: the fetchrow of new_ean, found or a new EAN,
\* count += 1; when the loop ends, the abort or the answer
get_new_ean_lookup(i) ==
    /\ i \in DOMAIN calls
    /\ calls[i].op = "get_new_ean"
    /\ calls[i].pc = "lookup"
    /\ LET f == calls[i].args
           row == HasUser(f.new_ean)
       IN  \E ean \in (IF row THEN genera_ean13 ELSE {f.new_ean}) :
              LET g == [new_ean |-> ean, found |-> row, count |-> f.count + 1]
              IN  IF g.found /\ g.count < MaxLookups
                  THEN calls' = [calls EXCEPT ![i].args = g]
                  ELSE IF g.count >= MaxLookups
                  THEN calls' = [calls EXCEPT ![i] = Answer([@ EXCEPT !.args = g], 500, Nothing)]
                  ELSE calls' = [calls EXCEPT ![i] = Answer([@ EXCEPT !.args = g], 200, Some(g.new_ean))]
    /\ UNCHANGED <<store, gsheet, lifecycle, listener, queue, dispatcher, cancelled,
                   registry, runs, managers>>

\* requests for a new EAN while users with generated EANs are created
NextEan ==
    \/ get_new_ean_begin
    \/ \E i \in 1..MaxCalls : get_new_ean_lookup(i)
    \/ \E ean \in genera_ean13 : create_user(Some(ean), Some("Test"), Some("User"))

SpecEan == InitServing /\ [][NextEan]_vars

\* the token login issues to the active manager of id 1
ManagerToken == create_access_token([sub |-> "1", username |-> "manager_0"])

\* the handlers of users and logs, their requests interleaved
NextUsers ==
    \/ \E b \in {Some(NewBarcode), Some(Alice.barcode), Some(ShortBarcode), Nothing},
          n \in {Some("Test"), Nothing} :
            create_user(b, n, Some("User"))
    \/ \E b \in {Alice.barcode, NewBarcode}, h \in {Nothing, Header("Bearer", ManagerToken)} :
            delete_user_begin(b, h)
    \/ \E i \in 1..MaxCalls : delete_user_end(i)
    \/ \E b \in {Nothing, Some(Alice.barcode), Some(NewBarcode)},
          d \in {Nothing, Some("CHECKIN"), Some("INVALID")},
          t \in {Nothing, Some(JsonTime)} :
            create_log_begin(b, d, t)
    \/ \E i \in 1..MaxCalls : create_log_insert(i)

SpecUsers == InitServing /\ [][NextUsers]_vars

\* the handlers that write tables users and log, their requests interleaved
NextStore ==
    \/ NextUsers
    \/ \E log_id \in LogIds : delete_log(log_id)

SpecStore == InitServing /\ [][NextStore]_vars

\* datetimes handed to format_event_time_ita, with and without tzinfo: the
\* two of the log rows above, the last second of winter time and the first of
\* summer time, the same at the return to winter time, a new year's night
\* and a leap day
FormatTimes ==
    {[secs |-> s, aware |-> a] :
        s \in {T1.secs, T3.secs, 1711846799, 1711846800, 1729990799, 1729990800, 1704065400, 1709208300},
        a \in BOOLEAN}

\* the app when the first sync run is spawned, table log holding one CHECKIN
\* whose event_time is any of FormatTimes
InitFormat ==
    /\ users = {Alice, Bob}
    /\ log \in {{[id |-> 1, barcode |-> b, direction |-> "CHECKIN", event_time |-> t]} :
                    b \in Barcodes, t \in FormatTimes}
    /\ next_id = 2
    /\ sheet = <<>>
    /\ gs = [credentials |-> None, client |-> None, worksheet |-> None, built |-> 0]
    /\ phase = "serving"
    /\ pool = 2
    /\ pools = <<"open", "open">>
    /\ listener_pc = "sleep"
    /\ conn = "open"
    /\ listening = TRUE
    /\ notifs = <<>>
    /\ notification_queue = <<>>
    /\ received = <<[channel |-> "log_changes", payload |-> "INSERT"]>>
    /\ overlapped = {}
    /\ dispatcher_pc = "get"
    /\ message = Message(received[1])
    /\ targets = <<>>
    /\ idx = 1
    /\ dead = <<>>
    /\ broadcasts = <<[message |-> message, registry |-> {}, targets |-> <<>>, sent |-> <<>>,
                       failed |-> {}]>>
    /\ cancelled = {}
    /\ connected_websockets = {}
    /\ ws_pc = [w \in Sockets |-> "new"]
    /\ runs = SpawnRun(<<>>, 1)
    /\ managers = {}
    /\ calls = <<>>

SpecFormat == InitFormat /\ [][NextView]_vars

\* the directions of test_lowercase_direction_accepted and
\* test_mixed_case_direction_accepted
MixedCaseDirections == {"checkin", "CheckIn", "checkOut", "CHECKOUT", "ChEcKiN"}

\* POST /logs for a user and for nobody, the direction in any letter case
NextCase ==
    \/ \E b \in {Alice.barcode, NewBarcode}, d \in MixedCaseDirections \cup {"CHECKIN"} :
            create_log_begin(Some(b), Some(d), Nothing)
    \/ \E i \in 1..MaxCalls : create_log_insert(i)

SpecCase == InitServing /\ [][NextCase]_vars

\* a subscriber whose peer has stopped reading: a send_json to it neither
\* returns nor raises
SlowSocket == "ws1"

\* the event loop runs every task that is ready, and a send to a peer that
\* reads or has gone comes back; nothing makes a send to SlowSocket come back
FairSpecBroadcast ==
    /\ SpecBroadcast
    /\ WF_vars(listener_connect)
    /\ WF_vars(listener_add_listener)
    /\ WF_vars(_listener)
    /\ WF_vars(dispatcher_get)
    /\ WF_vars(\E ok \in BOOLEAN : dispatcher_send(ok) /\ targets[idx] # SlowSocket)

\* the log row of sample_log: a CHECKIN of the user, there before any request
FirstLog == [id |-> 1, barcode |-> Alice.barcode, event_time |-> T1, direction |-> "CHECKIN"]

\* the handlers of users and logs on a store where the user has a log row
SpecAtomic == Serving({{FirstLog}}) /\ [][NextUsers]_vars

\* the listener on a connection that may drop, the dispatcher behind it, and
\* the application's way out
NextListener ==
    \/ listener_connect
    \/ listener_add_listener
    \/ listener_sleep
    \/ connection_lost
    \/ \E p \in Payloads : notify(p)
    \/ _listener
    \/ dispatcher_get
    \/ shutdown
    \/ close_db_pool
    \/ listener_cancelled
    \/ dispatcher_cancelled

SpecListener == Serving({{}}) /\ [][NextListener]_vars

\* the app from its construction: the before_serving hooks in the order of
\* their registration, the tasks startup creates, the after_serving hooks
NextLifecycle ==
    \/ startup
    \/ create_db_pool
    \/ NextListener

SpecLifecycle == Init /\ [][NextLifecycle]_vars

\* the event loop runs every task that is ready: the listener's awaits
\* return, a delivered notification reaches _listener, the dispatcher gets
\* what is queued
FairSpecListener ==
    /\ SpecListener
    /\ WF_vars(listener_connect)
    /\ WF_vars(listener_add_listener)
    /\ WF_vars(_listener)
    /\ WF_vars(dispatcher_get)

\* ===================================================================== claims
\* the k-th broadcast has run to its end
Ended(k) == k \in DOMAIN broadcasts /\ (k < Len(broadcasts) \/ dispatcher_pc = "get")

\* the connections the k-th broadcast has sent to, whatever came of it
SendTargets(k) == {broadcasts[k].sent[i].ws : i \in DOMAIN broadcasts[k].sent} \cup broadcasts[k].failed

\* the connections the k-th broadcast has delivered its message to
Delivered(k) == {broadcasts[k].sent[i].ws : i \in DOMAIN broadcasts[k].sent}

\* C3: every event the listener has received is either still in the queue or
\* has exactly one broadcast; the k-th broadcast is that of the k-th event
\* received, and it and each of its sends carry {type: "logs_changed", channel,
\* payload} with that event's channel and payload unchanged.
C3_OneBroadcastPerEventInOrder ==
    /\ Len(broadcasts) + Len(notification_queue) = Len(received)
    /\ \A k \in DOMAIN broadcasts :
        LET m == [type |-> "logs_changed", channel |-> received[k].channel,
                  payload |-> received[k].payload]
        IN  /\ broadcasts[k].message = m
            /\ \A i \in DOMAIN broadcasts[k].sent : broadcasts[k].sent[i].message = m

\* two events of different payloads, both broadcast and delivered, the queue drained
C3_Witness ==
    /\ Len(received) = 2
    /\ received[1].payload # received[2].payload
    /\ notification_queue = <<>>
    /\ Ended(2)
    /\ broadcasts[1].sent # <<>>
    /\ broadcasts[2].sent # <<>>

\* C4: a connection whose send failed in a broadcast is out of the registry
\* once that broadcast has ended, and no later broadcast sends to it; when a
\* broadcast over three connections fails on the second alone, the registry
\* after it is the first and the third (their handlers still open).
C4_FailedConnectionDropped ==
    /\ \A k \in DOMAIN broadcasts :
        Ended(k) => broadcasts[k].failed \cap connected_websockets = {}
    /\ \A j, k \in DOMAIN broadcasts :
        j < k => broadcasts[j].failed \cap SendTargets(k) = {}
    /\ (/\ dispatcher_pc = "get"
        /\ Len(targets) = 3
        /\ broadcasts[Len(broadcasts)].failed = {targets[2]}
        /\ ws_pc[targets[1]] = "open"
        /\ ws_pc[targets[3]] = "open")
       => connected_websockets = {targets[1], targets[3]}

\* three connections, the second fails, the broadcast has ended, and a later
\* broadcast has gone to the two that are left
C4_Witness ==
    /\ Len(broadcasts) = 2
    /\ Ended(2)
    /\ Len(broadcasts[1].targets) = 3
    /\ broadcasts[1].failed = {broadcasts[1].targets[2]}
    /\ Delivered(2) = {broadcasts[1].targets[1], broadcasts[1].targets[3]}
    /\ connected_websockets = Delivered(2)

\* C5: when a broadcast has ended, every connection that was in the registry
\* when it started and whose send did not fail has been sent the message.
C5_FailureDoesNotStopDelivery ==
    \A k \in DOMAIN broadcasts :
        Ended(k) => /\ broadcasts[k].registry \ broadcasts[k].failed \subseteq Delivered(k)
                    /\ Delivered(k) \cap broadcasts[k].failed = {}

\* the first of three sends failed and the two after it were delivered
C5_Witness ==
    /\ dispatcher_pc = "get"
    /\ Len(targets) = 3
    /\ broadcasts[Len(broadcasts)].failed = {targets[1]}
    /\ Delivered(Len(broadcasts)) = {targets[2], targets[3]}


\* the broadcasts that have run to their end
EndedBroadcasts == IF dispatcher_pc = "send" THEN Len(broadcasts) - 1 ELSE Len(broadcasts)

\* C6: the dispatcher does not wait for the runs it spawns: whenever an event
\* is queued while a sync run is under way (in its query or in the worker),
\* the dispatcher can dequeue and broadcast it.
C6_DispatcherDoesNotWaitForRuns ==
    (notification_queue # <<>> /\ dispatcher_pc # "send" /\ \E r \in DOMAIN runs : InFlight(r))
        => ENABLED dispatcher_get

\* the second event has been broadcast while the first run is in its sheet
\* write and the second run is in the worker too
C6_Witness ==
    /\ Len(broadcasts) = 2
    /\ Len(runs) = 2
    /\ runs[1].pc = "write"
    /\ runs[2].pc = "clear"

\* C8: a run that has failed leaves the dispatcher as it is: the loop is
\* alive and takes the next event, no received event is lost or skipped, every
\* broadcast carries its event, and every ended broadcast has spawned its run.
C8_RunFailureContained ==
    (\E r \in DOMAIN runs : runs[r].pc = "failed") =>
        /\ dispatcher_pc \in {"get", "send"}
        /\ "dispatcher" \notin cancelled
        /\ (notification_queue # <<>> /\ dispatcher_pc = "get") => ENABLED dispatcher_get
        /\ Len(broadcasts) + Len(notification_queue) = Len(received)
        /\ \A k \in DOMAIN broadcasts :
               broadcasts[k].message = [type |-> "logs_changed", channel |-> received[k].channel,
                                        payload |-> received[k].payload]
        /\ Len(runs) = EndedBroadcasts

\* the first run has failed and the next event waits in the queue
C8_Witness ==
    /\ Len(runs) = 1
    /\ runs[1].pc = "failed"
    /\ notification_queue # <<>>
    /\ dispatcher_pc = "get"

\* C10: there is one run per ended broadcast, the r-th run is that of the
\* r-th event, whatever became of the runs before it, and a run that has not
\* queried yet holds no rows.
C10_OneRunPerEvent ==
    /\ Len(runs) = EndedBroadcasts
    /\ \A r \in DOMAIN runs :
        /\ runs[r].event = r
        /\ runs[r].pc = "fetch" => runs[r].rows = <<>>

\* the first run failed after it cleared the sheet, the second run queried
\* and wrote its rows
C10_Witness ==
    /\ Len(runs) = 2
    /\ runs[1].pc = "failed"
    /\ runs[2].pc = "done"
    /\ runs[2].rows # <<>>
    /\ sheet = runs[2].rows


\* C1: once every one of several sync runs has run to its end, the sheet is
\* the row list of one of them, never rows of two runs' snapshots.
C1_SheetIsOneRunsSnapshot ==
    (Len(runs) >= 2 /\ \A r \in DOMAIN runs : runs[r].pc = "done")
        => \E r \in DOMAIN runs : sheet = runs[r].rows

\* C2: two events, each of a write to table log, the second received before
\* the first one's run had ended: once both runs have run to their end the
\* sheet is a result of the query on the store as both writes left it.
C2_SheetIsFreshAfterBothRuns ==
    (/\ Len(received) = 2
     /\ 2 \in overlapped
     /\ Len(runs) = 2
     /\ \A r \in DOMAIN runs : runs[r].pc = "done")
        => sheet \in fetch_last_inbound_rows(users, log)

\* the run r holds the rows of its query
Fetched(r) == r \in DOMAIN runs /\ runs[r].pc \in {"get_worksheet", "build", "clear", "write", "done"}

\* the positions of barcode b in a row list
RowsOf(rows, b) == {i \in DOMAIN rows : rows[i][1] = b}

\* the CHECKIN rows of barcode b in table log
Checkins(b) == {l \in log : l.barcode = b /\ l.direction = "CHECKIN"}

\* the rows of barcode b in table log that no row of b is more recent than
MostRecent(b) ==
    {l \in log : l.barcode = b /\ \A q \in log : q.barcode = b => q.event_time.secs <= l.event_time.secs}

\* the sheet row of user u with event_time t
RowFor(u, t) == <<u.barcode, u.nome, u.cognome, format_event_time_ita(t)>>

C9_ListenerEndsOnConnectionLoss == (conn = "lost") ~> (listener_pc = "done")


\* C11: two sync runs one after the other on an unchanged store: the sheet
\* after the first run is that run's rows, and after the second run it is
\* the same.
C11_SecondRunLeavesSheetAsFirst ==
    /\ (/\ AtPc(1, "done")
        /\ (Len(runs) = 1 \/ (Len(runs) = 2 /\ runs[2].pc \in {"fetch", "get_worksheet", "build", "clear"})))
           => sheet = runs[1].rows
    /\ (AtPc(1, "done") /\ AtPc(2, "done")) => sheet = runs[1].rows

\* C12: a sync run touches the sheet first by clearing A2:D; with no rows it
\* ends there without a write, with rows it writes once, all of them, from A2.
C12_ClearThenOneWrite ==
    [][/\ sheet' # sheet => runs[1].pc \in {"clear", "write"}
       /\ (runs[1].pc = "clear" /\ runs'[1].pc \in {"write", "done"}) => sheet' = <<>>
       /\ (runs[1].pc = "clear" /\ runs'[1].pc = "done") => runs[1].rows = <<>>
       /\ (runs[1].pc = "clear" /\ runs'[1].pc = "write") => runs[1].rows # <<>>
       /\ (runs[1].pc # "write" /\ runs'[1].pc = "write") => runs[1].pc = "clear"
       /\ (runs[1].pc = "write" /\ runs'[1].pc = "done") => sheet' = runs[1].rows
       /\ (runs[1].pc # "done" /\ runs'[1].pc = "done") => runs[1].pc \in {"clear", "write"}
      ]_vars

\* a run has ended on a sheet that held two older rows: one with no row has
\* left the range empty, one with a single row has left that row alone
C12_Witness ==
    /\ AtPc(1, "done")
    /\ Len(runs[1].rows) <= 1
    /\ sheet = runs[1].rows
    /\ gs.worksheet # None


\* the request i gets its answer in this step
Completes(i) ==
    /\ i \in DOMAIN calls'
    /\ calls'[i].pc = "done"
    /\ (i \in DOMAIN calls => calls[i].pc # "done")

\* the request i arrives in this step
Arrives(i) == i \in DOMAIN calls' /\ i \notin DOMAIN calls

\* C13: a DELETE /users/<barcode> that carries no valid bearer token is
\* answered 401.
C13_DeleteUserNeedsManagerToken ==
    \A i \in DOMAIN calls :
        (/\ calls[i].op = "delete_user"
         /\ calls[i].pc = "done"
         /\ auth_required(calls[i].args.authorization) = 401)
            => calls[i].status = 401

\* C16: a POST /users with a well-formed body is answered 409 and changes
\* nothing when a user has the barcode, and 201 with the user stored
\* otherwise; no two users share a barcode; of the requests that create the
\* same new barcode, with no delete of it among them, exactly one is
\* answered 201, the others 409, and one user has the barcode.
C16_CreateUserOncePerBarcode ==
    /\ [][\A i \in 1..(MaxCalls + 1) :
            (/\ Completes(i)
             /\ calls'[i].op = "create_user"
             /\ calls'[i].status # 400)
                => LET a == calls'[i].args
                   IN  IF HasUser(a.barcode[1])
                       THEN calls'[i].status = 409 /\ users' = users
                       ELSE /\ calls'[i].status = 201
                            /\ users' = users \cup {[barcode |-> a.barcode[1], nome |-> a.nome[1],
                                                     cognome |-> a.cognome[1]]}
         ]_vars
    /\ [](/\ \A u, v \in users : u.barcode = v.barcode => u = v
          /\ LET creates == {i \in DOMAIN calls : /\ calls[i].op = "create_user"
                                                  /\ calls[i].args.barcode = Some(NewBarcode)
                                                  /\ calls[i].status # 400}
                 deleted == \E i \in DOMAIN calls : /\ calls[i].op = "delete_user"
                                                    /\ calls[i].args.barcode = NewBarcode
             IN  (creates # {} /\ ~deleted)
                    => /\ Cardinality({i \in creates : calls[i].status = 201}) = 1
                       /\ \A i \in creates : calls[i].status \in {201, 409}
                       /\ Cardinality({u \in users : u.barcode = NewBarcode}) = 1)

\* two requests have created the same new barcode: one 201, one 409
C16_Witness ==
    /\ Len(calls) >= 2
    /\ calls[1].op = "create_user" /\ calls[1].args.barcode = Some(NewBarcode) /\ calls[1].status = 201
    /\ calls[2].op = "create_user" /\ calls[2].args.barcode = Some(NewBarcode) /\ calls[2].status = 409
    /\ Cardinality({u \in users : u.barcode = NewBarcode}) = 1

\* C17: when DELETE /users/<barcode> arrives the log rows of the barcode go;
\* when it is answered 200 the user was there and neither the user nor a log
\* row of the barcode is left; it is answered 404 when no user has the
\* barcode, and 200 when one has and no log row names it.
C17_DeleteUserLeavesNothing ==
    [][\A i \in 1..(MaxCalls + 1) :
        /\ (Arrives(i) /\ calls'[i].op = "delete_user")
              => \A l \in log' : l.barcode # calls'[i].args.barcode
        /\ (Completes(i) /\ calls'[i].op = "delete_user")
              => LET b == calls'[i].args.barcode
                 IN  /\ calls'[i].status = 200
                            => /\ HasUser(b)
                               /\ \A u \in users' : u.barcode # b
                               /\ \A l \in log' : l.barcode # b
                     /\ ~HasUser(b) => calls'[i].status = 404
                     /\ (HasUser(b) /\ \A l \in log : l.barcode # b) => calls'[i].status = 200
      ]_vars

\* Alice had a log row and is deleted with it
C17_Witness ==
    /\ \E i \in DOMAIN calls : /\ calls[i].op = "delete_user"
                               /\ calls[i].args.barcode = Alice.barcode
                               /\ calls[i].status = 200
    /\ next_id > 1
    /\ log = {}
    /\ ~HasUser(Alice.barcode)

\* C18: POST /logs is answered 400 and stores nothing when the barcode is
\* missing, the direction is not CHECKIN or CHECKOUT, or no user has the
\* barcode; otherwise it is answered 201 with the id of the one row it stores.
C18_CreateLogAnswers ==
    [][\A i \in 1..(MaxCalls + 1) :
        (Completes(i) /\ calls'[i].op = "create_log")
            => LET a == calls'[i].args
                   bad == \/ ~Truthy(a.barcode)
                          \/ a.direction \notin {Some("CHECKIN"), Some("CHECKOUT")}
                          \/ ~HasUser(a.barcode[1])
               IN  IF bad
                   THEN calls'[i].status = 400 /\ log' = log
                   ELSE /\ calls'[i].status = 201
                        /\ calls'[i].body # Nothing
                        /\ \E l \in log' \ log :
                              /\ log' = log \cup {l}
                              /\ l.id = calls'[i].body[1]
                              /\ l.barcode = a.barcode[1]
                              /\ l.direction = a.direction[1]
      ]_vars


\* C14: table managers never holds more than 10 managers.
C14_AtMostTenManagers == Cardinality(managers) <= MaxManagers

\* C15: a manager that register stores is inactive; login answers 200 with
\* a token exactly when a manager of that username has the password and is
\* active, and 403 with no token when the managers of that username with
\* the password are all inactive.
C15_LoginOnlyForActiveManager ==
    [][\A i \in 1..(MaxAuthCalls + 1) :
        /\ (Completes(i) /\ calls'[i].op = "register" /\ calls'[i].status = 201)
              => \E m \in managers' \ managers :
                    /\ managers' = managers \cup {m}
                    /\ m.username = calls'[i].args.username[1]
                    /\ ~m.active
        /\ (Completes(i) /\ calls'[i].op = "login")
              => LET a == calls'[i].args
                     known == IF Truthy(a.username) /\ Truthy(a.password)
                              THEN {m \in managers : /\ m.username = a.username[1]
                                                     /\ verify_password(a.password[1], m.password_hash)}
                              ELSE {}
                 IN  /\ calls'[i].status = 200 <=> calls'[i].body # Nothing
                     /\ calls'[i].status = 200
                           => \E m \in known :
                                 /\ m.active
                                 /\ calls'[i].body = Some(create_access_token(
                                        [sub |-> ToString(m.id), username |-> m.username]))
                     /\ (known # {} /\ \A m \in managers : m.username = a.username[1] => m \in known)
                           => IF \A m \in known : ~m.active THEN calls'[i].status = 403
                              ELSE IF \A m \in known : m.active THEN calls'[i].status = 200
                              ELSE calls'[i].status \in {200, 403}
      ]_vars

\* manager_9 registers, is refused a token, is activated, and gets one
C15_Witness ==
    /\ Len(calls) = 3
    /\ calls[1].op = "register" /\ calls[1].status = 201 /\ calls[1].args.username = Some("manager_9")
    /\ calls[2].op = "login" /\ calls[2].status = 403 /\ calls[2].args.username = Some("manager_9")
    /\ calls[3].op = "login" /\ calls[3].status = 200 /\ calls[3].args.username = Some("manager_9")


\* C19: when GET /users/newean is answered 200, new_ean is a string of 13
\* digits, the one the handler's last lookup was for, and that lookup found
\* no user with it.
C19_NewEanWasLookedUpAndFree ==
    [][\A i \in 1..(MaxCalls + 1) :
        (Completes(i) /\ calls'[i].op = "get_new_ean" /\ calls'[i].status = 200)
            => /\ i \in DOMAIN calls
               /\ calls'[i].body = Some(calls[i].args.new_ean)
               /\ Len(calls[i].args.new_ean) = 13
               /\ isdigit(calls[i].args.new_ean)
               /\ ~HasUser(calls[i].args.new_ean)
      ]_vars

\* a user has a generated EAN, the handler drew it, drew again and answered
\* with the other one
C19_Witness ==
    \E i \in DOMAIN calls :
        /\ calls[i].op = "get_new_ean"
        /\ calls[i].status = 200
        /\ calls[i].args.count >= 2
        /\ \E u \in users : u.barcode \in genera_ean13
        /\ ~HasUser(calls[i].body[1])

\* C20: the listener task that a cancellation ends after it has registered
\* _listener has closed its connection when it ends.
C20_CancelledListenerClosesConnection ==
    [][(listener_pc = "sleep" /\ listener_pc' = "done") => (conn' = "closed" /\ ~listening')]_vars

\* shutdown has cancelled the listener in its sleep and the connection is closed
C20_Witness ==
    /\ phase \in {"shut", "stopped"}
    /\ listener_pc = "done"
    /\ conn = "closed"
    /\ received # <<>>

\* C21: a broadcast goes to the registry as it was when the broadcast started.
\* Whatever is registered or unregistered while a send is suspended, the
\* dispatcher stays in its loop, the broadcast sends to nothing outside that
\* registry and, once ended, has sent to all of it; and a handler that ends
\* for a connection the dispatcher has already dropped leaves the registry as
\* it is.
C21_BroadcastOverRegistryCopy ==
    /\ [](/\ dispatcher_pc \in {"get", "send"}
          /\ \A k \in DOMAIN broadcasts :
                /\ SendTargets(k) \subseteq broadcasts[k].registry
                /\ Ended(k) => SendTargets(k) = broadcasts[k].registry)
    /\ [][\A w \in Sockets :
            (ws_pc[w] = "open" /\ ws_pc'[w] = "closed" /\ w \notin connected_websockets)
                => connected_websockets' = connected_websockets]_vars

\* a broadcast past its first send, with a connection registered since it
\* started and one of its own unregistered since
C21_Witness ==
    /\ dispatcher_pc = "send"
    /\ idx >= 2
    /\ connected_websockets \ broadcasts[Len(broadcasts)].registry # {}
    /\ \E w \in broadcasts[Len(broadcasts)].registry :
          w \notin connected_websockets /\ ws_pc[w] = "closed" /\ w \notin SendTargets(Len(broadcasts))

\* C22: the worksheet handle is built at most once, and once built it stays
\* the one every run uses, also when two runs are in get_worksheet together.
C22_WorksheetBuiltOnce ==
    /\ gs.built <= 1
    /\ gs.worksheet \in {None, 1}

\* C23: DELETE /logs/<id> on a table that holds a row of that id is answered
\* 200 and takes that row and no other; on a table that holds none it is
\* answered 404 and takes nothing; either way table users stays as it is, the
\* user of the row taken included.
C23_DeleteLogTakesOneRow ==
    [][\A i \in 1..(MaxCalls + 1) :
        (Arrives(i) /\ calls'[i].op = "delete_log")
            => LET id == calls'[i].args.log_id
                   row == {l \in log : l.id = id}
               IN  /\ calls'[i].pc = "done"
                   /\ users' = users
                   /\ log' = log \ row
                   /\ Cardinality(row) <= 1
                   /\ calls'[i].status = IF row = {} THEN 404 ELSE 200
                   /\ \A l \in row : HasUser(l.barcode)'
      ]_vars

\* a user with two log rows has lost the first to a DELETE /logs/1 and kept
\* the second
C23_Witness ==
    \E i \in DOMAIN calls :
        /\ calls[i].op = "delete_log"
        /\ calls[i].args.log_id = 1
        /\ calls[i].status = 200
        /\ \E l \in log : l.id = 2 /\ l.barcode = Alice.barcode
        /\ HasUser(Alice.barcode)

\* C24: the sheet row of a log row shows its event_time as HH:MM DD/MM/YYYY on
\* the clock of Europe/Rome, a datetime without tzinfo read as UTC:
\* 2024-01-15 10:00:00 is shown as 11:00 15/01/2024 (UTC+1), 2024-07-15
\* 22:30:00 as 00:30 16/07/2024 (UTC+2), and so on across the changes of
\* offset, with or without tzinfo.
C24_NaiveTimeShownInRome ==
    Fetched(1) =>
        \A l \in log :
            LET s == runs[1].rows[1][4]
                t == l.event_time.secs
            IN  /\ Len(s) = 16
                /\ isdigit(SubSeq(s, 1, 2)) /\ SubSeq(s, 3, 3) = ":" /\ isdigit(SubSeq(s, 4, 5))
                /\ SubSeq(s, 6, 6) = " "
                /\ isdigit(SubSeq(s, 7, 8)) /\ SubSeq(s, 9, 9) = "/" /\ isdigit(SubSeq(s, 10, 11))
                /\ SubSeq(s, 12, 12) = "/" /\ isdigit(SubSeq(s, 13, 16))
                /\ (t = 1705312800 => s = "11:00 15/01/2024")
                /\ (t = 1721082600 => s = "00:30 16/07/2024")
                /\ (t = 1711846799 => s = "01:59 31/03/2024")
                /\ (t = 1711846800 => s = "03:00 31/03/2024")
                /\ (t = 1729990799 => s = "02:59 27/10/2024")
                /\ (t = 1729990800 => s = "02:00 27/10/2024")
                /\ (t = 1704065400 => s = "00:30 01/01/2024")
                /\ (t = 1709208300 => s = "13:05 29/02/2024")

\* the run has fetched the row of 2024-01-15 10:00:00 without tzinfo and
\* holds 11:00 15/01/2024 for it
C24_Witness ==
    /\ Fetched(1)
    /\ \E l \in log : l.event_time = [secs |-> 1705312800, aware |-> FALSE]
    /\ runs[1].rows[1][4] = "11:00 15/01/2024"

\* C25: a POST /logs for an existing user whose direction is CHECKIN or
\* CHECKOUT in some letter case (checkin, CheckIn, checkOut, CHECKOUT,
\* ChEcKiN) is answered 201 with the id of a row stored for that user.
C25_DirectionInAnyCase ==
    [][\A i \in 1..(MaxCalls + 1) :
        (/\ Completes(i)
         /\ calls'[i].op = "create_log"
         /\ calls'[i].args.direction[1] \in MixedCaseDirections
         /\ HasUser(calls'[i].args.barcode[1]))
            => /\ calls'[i].status = 201
               /\ \E l \in log' : /\ Some(l.id) = calls'[i].body
                                  /\ l.barcode = calls'[i].args.barcode[1]
      ]_vars

\* C26: every event the listener has put in the queue is in the end taken
\* out, its broadcast run to its end and its sync run spawned, also when the
\* send to one subscriber never comes back.
C26_SlowSubscriberDoesNotStall ==
    \A k \in 1..MaxEvents :
        (Len(received) >= k) ~> (Ended(k) /\ \E r \in DOMAIN runs : runs[r].event = k)

\* C27: a DELETE /users/<barcode> either removes the user and the user's logs
\* or leaves the store as it was.  Here no other request removes log rows;
\* so when every DELETE of the user's barcode has ended with an answer other
\* than 200, the log row the user had is still there.
C27_DeleteUserAllOrNothing ==
    (\A i \in DOMAIN calls :
        (calls[i].op = "delete_user" /\ calls[i].args.barcode = Alice.barcode)
            => (calls[i].pc = "done" /\ calls[i].status # 200))
    => FirstLog \in log

\* C28: GET /users/newean ends after at most 10 lookups, and its answer goes
\* by its last lookup: 500 when that candidate, as all before it, was a
\* user's barcode, 200 with the candidate when it was free, on the tenth
\* lookup as on any other.
C28_NewEanFailsOnlyWhenAllTaken ==
    [][\A i \in DOMAIN calls :
        (Completes(i) /\ calls[i].op = "get_new_ean")
            => /\ calls'[i].args.count <= MaxLookups
               /\ IF HasUser(calls[i].args.new_ean)
                  THEN calls'[i].status = 500
                  ELSE calls'[i].status = 200 /\ calls'[i].body = Some(calls[i].args.new_ean)
      ]_vars

\* C30: whatever requests on users and logs have run or are under way, every
\* row of table log has the barcode of a row of table users.
C30_EveryLogHasItsUser == \A l \in log : HasUser(l.barcode)

\* a POST /logs found its user, a DELETE /users took the user before the
\* INSERT, and the INSERT was refused: the user is gone and no log row is left
C30_Witness ==
    \E i, j \in DOMAIN calls :
        /\ calls[i].op = "create_log"
        /\ calls[i].args.barcode = Some(Alice.barcode)
        /\ calls[i].args.event_time = Nothing
        /\ calls[i].args.direction = Some("CHECKIN")
        /\ calls[i].status = 500
        /\ calls[j].op = "delete_user"
        /\ calls[j].args.barcode = Alice.barcode
        /\ calls[j].status = 200
        /\ ~HasUser(Alice.barcode)
        /\ \A l \in log : l.barcode # Alice.barcode

\* C29: when both after_serving hooks have run, every pool the before_serving
\* hooks created is closed.
C29_EveryPoolClosed ==
    phase = "stopped" => \A p \in DOMAIN pools : pools[p] = "closed"

====
